---------------------------- MODULE Spec2Model ----------------------------
(***************************************************************************)
(* Model of the classification + entity-extraction + enrichment pipeline   *)
(* of z_pos_bot_assistent: app/rules_engine.py, app/entities_engine.py and *)
(* app/storage.py (ingest_raw_and_classify).                               *)
(*                                                                         *)
(* Strings the code takes apart (captured values, raw matches) are         *)
(* sequences of one-character strings.  Real numbers (weights and          *)
(* confidences in [0,1]) are integers in hundredths.                       *)
(***************************************************************************)
EXTENDS Integers, Sequences, FiniteSets, TLC

\* SQL NULL / Python None in a text column, and in a column of character strings
NULL == "NULL"

NullChars == <<NULL>>

\* the empty dict; it also stands for None where the value is otherwise a
\* mapping (both are falsy)
EmptyMapping == [k \in {} |-> TRUE]

(***************************************************************************)
(* Character classes of Python's str and re                                *)
(***************************************************************************)
Digits == {"0", "1", "2", "3", "4", "5", "6", "7", "8", "9"}

LowerCase == <<"a", "b", "c", "d", "e", "f", "g", "h", "i", "j", "k", "l", "m",
               "n", "o", "p", "q", "r", "s", "t", "u", "v", "w", "x", "y", "z">>

UpperCase == <<"A", "B", "C", "D", "E", "F", "G", "H", "I", "J", "K", "L", "M",
               "N", "O", "P", "Q", "R", "S", "T", "U", "V", "W", "X", "Y", "Z">>

Whitespace == {" "}

\* str.isdigit for one character
IsDigit(ch) == ch \in Digits

\* a \w character of re
IsWord(ch) ==
    \/ ch \in Digits
    \/ ch = "_"
    \/ \E i \in 1..Len(LowerCase) : ch = LowerCase[i] \/ ch = UpperCase[i]

\* str.upper for one character
UpperChar(ch) ==
    IF \E i \in 1..Len(LowerCase) : LowerCase[i] = ch
    THEN UpperCase[CHOOSE i \in 1..Len(LowerCase) : LowerCase[i] = ch]
    ELSE ch

\* str.upper
Upper(s) == [i \in 1..Len(s) |-> UpperChar(s[i])]

RECURSIVE LStrip(_)
LStrip(s) ==
    IF s # <<>> /\ Head(s) \in Whitespace THEN LStrip(Tail(s)) ELSE s

RECURSIVE RStrip(_)
RStrip(s) ==
    IF s # <<>> /\ s[Len(s)] \in Whitespace
    THEN RStrip(SubSeq(s, 1, Len(s) - 1))
    ELSE s

\* str.strip
Strip(s) == RStrip(LStrip(s))

\* "".join(ch for ch in v if ch.isdigit())
OnlyDigits(s) == SelectSeq(s, IsDigit)

(***************************************************************************)
(* entities_engine._normalize                                              *)
(***************************************************************************)
_normalize(entity_type, value) ==
    LET v == Strip(value)
    IN  IF entity_type \in {"azs", "workplace", "sd_ticket"} THEN OnlyDigits(v)
        ELSE IF entity_type = "terminal" THEN Upper(v)
        ELSE v

(***************************************************************************)
(* re.findall(r"\b\d{1,2}\b", val): the scan of the regex engine           *)
(***************************************************************************)
\* \b at the gap before position i (1..Len(s)+1)
WordBoundary(s, i) ==
    LET before == i > 1 /\ IsWord(s[i - 1])
        after  == i <= Len(s) /\ IsWord(s[i])
    IN  before # after

\* length of the match of \b\d{1,2}\b starting at i, 0 when there is none
\* (\d{1,2} is greedy: two digits are tried before one)
ShortNumAt(s, i) ==
    IF ~ (i <= Len(s) /\ IsDigit(s[i]) /\ WordBoundary(s, i)) THEN 0
    ELSE IF i + 1 <= Len(s) /\ IsDigit(s[i + 1]) /\ WordBoundary(s, i + 2) THEN 2
    ELSE IF WordBoundary(s, i + 1) THEN 1
    ELSE 0

RECURSIVE ScanShortNums(_, _)
ScanShortNums(s, i) ==
    IF i > Len(s) THEN <<>>
    ELSE LET n == ShortNumAt(s, i)
         IN  IF n > 0
             THEN <<SubSeq(s, i, i + n - 1)>> \o ScanShortNums(s, i + n)
             ELSE ScanShortNums(s, i + 1)

FindShortNums(val) == ScanShortNums(val, 1)

(***************************************************************************)
(* Message texts                                                           *)
(***************************************************************************)
TxtEmpty == <<>>

TxtBlank == <<" ">>

\* "pos down": no entity
TxtPlain == <<"p", "o", "s", " ", "d", "o", "w", "n">>

\* "pos": the text of TxtPlain without "down"
TxtPos == <<"p", "o", "s">>

\* "AZS 0123 RM 1,2": a site and a workplace list
TxtSiteList == <<"A", "Z", "S", " ", "0", "1", "2", "3", " ",
                 "R", "M", " ", "1", ",", "2">>

\* "AZS 0123 RM 3": a site and one workplace
TxtSiteOne == <<"A", "Z", "S", " ", "0", "1", "2", "3", " ", "R", "M", " ", "3">>

\* "AZS 0123 RM 1 RM 1 10.0.0.1": a repeated workplace and an IP address
TxtSiteDup == <<"A", "Z", "S", " ", "0", "1", "2", "3", " ",
                "R", "M", " ", "1", " ", "R", "M", " ", "1", " ",
                "1", "0", ".", "0", ".", "0", ".", "1">>

\* "AZS 0123, RM 1,2,3": a site and a list of three workplaces
TxtSiteThree == <<"A", "Z", "S", " ", "0", "1", "2", "3", ",", " ",
                  "R", "M", " ", "1", ",", "2", ",", "3">>

\* "RM 123 RM 4a": workplace captures without a one-or-two-digit token
TxtLongNum == <<"R", "M", " ", "1", "2", "3", " ", "R", "M", " ", "4", "a">>

\* "RM ,": a workplace capture without a digit
TxtComma == <<"R", "M", " ", ",">>

(***************************************************************************)
(* The re module on the patterns and texts of the model.  A pattern is     *)
(* named by its source text; a match is its span and the span of group 1   *)
(* (lastindex = 0 stands for m.lastindex None: the pattern has no group).  *)
(***************************************************************************)
ReAzs == "AZS\\s*(\\d{2,4})"

ReWorkplace == "RM\\s*([\\d,]+\\w?)"

ReWorkplaceAlt == "RM (\\d)\\b"

ReIp == "\\d+\\.\\d+\\.\\d+\\.\\d+"

RePos == "pos"

ReDown == "down"

ReReboot == "reboot"

ReEmptyString == ""

ReBlank == " "

ReBroken == "RM ("

\* re.error is raised when the pattern is compiled
ReError(regex) == regex = ReBroken

Span(text, s, e, gs, ge) ==
    [raw |-> SubSeq(text, s, e), lastindex |-> 1, group1 |-> SubSeq(text, gs, ge)]

SpanNoGroup(text, s, e) ==
    [raw |-> SubSeq(text, s, e), lastindex |-> 0, group1 |-> <<>>]

\* the matches of the pattern " ": the blanks of the text
BlankSpans(text) ==
    LET IsBlankAt(i) == text[i] = " "
        at == SelectSeq([i \in 1..Len(text) |-> i], IsBlankAt)
    IN  [k \in 1..Len(at) |-> SpanNoGroup(text, at[k], at[k])]

\* list(re.finditer(regex, text)) for a well-formed regex
FindIter(regex, text) ==
    CASE regex = ReBlank -> BlankSpans(text)
      [] regex = ReAzs /\ text \in {TxtSiteList, TxtSiteOne, TxtSiteDup, TxtSiteThree}
            -> <<Span(text, 1, 8, 5, 8)>>
      [] regex = ReWorkplace /\ text = TxtSiteThree -> <<Span(text, 11, 18, 14, 18)>>
      [] regex = ReWorkplaceAlt /\ text = TxtSiteThree -> <<Span(text, 11, 14, 14, 14)>>
      [] regex = ReWorkplace /\ text = TxtSiteList -> <<Span(text, 10, 15, 13, 15)>>
      [] regex = ReWorkplace /\ text = TxtSiteOne  -> <<Span(text, 10, 13, 13, 13)>>
      [] regex = ReWorkplace /\ text = TxtSiteDup
            -> <<Span(text, 10, 13, 13, 13), Span(text, 15, 18, 18, 18)>>
      [] regex = ReWorkplace /\ text = TxtLongNum
            -> <<Span(text, 1, 6, 4, 6), Span(text, 8, 12, 11, 12)>>
      [] regex = ReWorkplace /\ text = TxtComma -> <<Span(text, 1, 4, 4, 4)>>
      [] regex = ReWorkplaceAlt /\ text = TxtSiteOne  -> <<Span(text, 10, 13, 13, 13)>>
      [] regex = ReWorkplaceAlt /\ text = TxtSiteDup
            -> <<Span(text, 10, 13, 13, 13), Span(text, 15, 18, 18, 18)>>
      [] regex = ReWorkplaceAlt /\ text = TxtSiteList -> <<Span(text, 10, 13, 13, 13)>>
      [] regex = ReIp /\ text = TxtSiteDup -> <<SpanNoGroup(text, 20, 27)>>
      [] regex = RePos /\ text \in {TxtPlain, TxtPos} -> <<SpanNoGroup(text, 1, 3)>>
      [] regex = ReDown /\ text = TxtPlain -> <<SpanNoGroup(text, 5, 8)>>
      [] OTHER -> <<>>

\* re.search(regex, text) is a match object (truthy) for a well-formed regex:
\* the empty pattern matches every text
Search(regex, text) == regex = ReEmptyString \/ FindIter(regex, text) # <<>>

(***************************************************************************)
(* entities_engine.extract_entities                                        *)
(***************************************************************************)
EntityMatch(entity_type, entity_value, entity_raw, confidence, extractor) ==
    [entity_type |-> entity_type, entity_value |-> entity_value,
     entity_raw |-> entity_raw, confidence |-> confidence, extractor |-> extractor]

\* f"{extractor_version}:{name}"
ExtractorTag(extractor_version, name) == <<extractor_version, ":", name>>

\* the EntityMatch items appended for the tokens of a workplace list
RECURSIVE WorkplaceTokens(_, _, _, _, _)
WorkplaceTokens(entity_type, nums, raw, confidence, extractor) ==
    IF nums = <<>> THEN <<>>
    ELSE LET norm == _normalize(entity_type, Head(nums))
         IN  (IF norm # <<>>
              THEN <<EntityMatch(entity_type, norm, raw, confidence, extractor)>>
              ELSE <<>>)
             \o WorkplaceTokens(entity_type, Tail(nums), raw, confidence, extractor)

\* (variant: the loop body without its "continue" after the token loop)
MatchEntities_FallsThrough(entity_type, m, confidence, extractor) ==
    LET raw  == m.raw
        val  == IF m.lastindex >= 1 THEN m.group1 ELSE raw
        nums == FindShortNums(val)
        norm == _normalize(entity_type, val)
    IN  (IF entity_type = "workplace" /\ nums # <<>>
         THEN WorkplaceTokens(entity_type, nums, raw, confidence, extractor)
         ELSE <<>>)
        \o (IF norm = <<>> THEN <<>>
            ELSE <<EntityMatch(entity_type, norm, raw, confidence, extractor)>>)

\* the body of the loop over re.finditer: what one match appends to found
MatchEntities(entity_type, m, confidence, extractor) ==
    LET raw  == m.raw
        val  == IF m.lastindex >= 1 THEN m.group1 ELSE raw
        nums == FindShortNums(val)
        norm == _normalize(entity_type, val)
    IN  IF entity_type = "workplace" /\ nums # <<>>
        THEN WorkplaceTokens(entity_type, nums, raw, confidence, extractor)
        ELSE IF norm = <<>> THEN <<>>
        ELSE <<EntityMatch(entity_type, norm, raw, confidence, extractor)>>

RECURSIVE MatchesEntities(_, _, _, _)
MatchesEntities(entity_type, ms, confidence, extractor) ==
    IF ms = <<>> THEN <<>>
    ELSE MatchEntities(entity_type, Head(ms), confidence, extractor)
         \o MatchesEntities(entity_type, Tail(ms), confidence, extractor)

\* one pattern of one entity type: a malformed regex appends nothing
RuleEntities(entity_type, r, extractor_version, text) ==
    IF ReError(r.regex) THEN <<>>
    ELSE MatchesEntities(entity_type, FindIter(r.regex, text), r.confidence,
                         ExtractorTag(extractor_version, r.name))

\* (variant: "break" instead of "continue" in the handler of re.error)
RECURSIVE RulesEntities_StopsAtMalformed(_, _, _, _)
RulesEntities_StopsAtMalformed(entity_type, rules, extractor_version, text) ==
    IF rules = <<>> THEN <<>>
    ELSE IF ReError(Head(rules).regex) THEN <<>>
    ELSE RuleEntities(entity_type, Head(rules), extractor_version, text)
         \o RulesEntities_StopsAtMalformed(entity_type, Tail(rules), extractor_version, text)

RECURSIVE RulesEntities(_, _, _, _)
RulesEntities(entity_type, rules, extractor_version, text) ==
    IF rules = <<>> THEN <<>>
    ELSE RuleEntities(entity_type, Head(rules), extractor_version, text)
         \o RulesEntities(entity_type, Tail(rules), extractor_version, text)

\* (variant: the entity types taken from the last declared to the first)
RECURSIVE PatternsEntities_LastTypeFirst(_, _, _)
PatternsEntities_LastTypeFirst(patterns, extractor_version, text) ==
    IF patterns = <<>> THEN <<>>
    ELSE PatternsEntities_LastTypeFirst(Tail(patterns), extractor_version, text)
         \o RulesEntities(Head(patterns).entity_type, Head(patterns).rules,
                          extractor_version, text)

RECURSIVE PatternsEntities(_, _, _)
PatternsEntities(patterns, extractor_version, text) ==
    IF patterns = <<>> THEN <<>>
    ELSE RulesEntities(Head(patterns).entity_type, Head(patterns).rules,
                       extractor_version, text)
         \o PatternsEntities(Tail(patterns), extractor_version, text)

extract_entities(text, data) ==
    IF text = <<>> THEN <<>>
    ELSE PatternsEntities(data.patterns, data.extractor, text)

(***************************************************************************)
(* The entity rule set of the running bot (config/entities.yaml as         *)
(* get_entities_data caches it)                                            *)
(***************************************************************************)
ENTITIES_DATA ==
    [extractor |-> "regex:v1",
     patterns  |-> <<
        [entity_type |-> "azs",
         rules |-> <<[name |-> "azs_num", regex |-> ReAzs, confidence |-> 90]>>],
        [entity_type |-> "workplace",
         rules |-> <<[name |-> "rm_list", regex |-> ReWorkplace, confidence |-> 80]>>],
        [entity_type |-> "ip",
         rules |-> <<[name |-> "ipv4", regex |-> ReIp, confidence |-> 70]>>] >>]

(***************************************************************************)
(* terminal_directory: reference rows, unique on (azs, arm, plnum)         *)
(***************************************************************************)
Azs0123 == <<"0", "1", "2", "3">>

Tid1 == <<"1", "0", "0", "0", "0", "0", "0", "1">>

Tid2 == <<"1", "0", "0", "0", "0", "0", "0", "2">>

Ip1 == <<"1", "0", ".", "0", ".", "0", ".", "1">>

Ip2 == <<"1", "0", ".", "0", ".", "0", ".", "2">>

DirRow(azs, arm, plnum, tid, ip) ==
    [azs |-> azs, arm |-> arm, plnum |-> plnum, tid |-> tid, ip |-> ip]

\* workplace 1 resolves to one row, workplace 2 to two rows, workplace 3 to none
DirectoryA ==
    << DirRow(Azs0123, "POS", <<"1">>, Tid1, Ip1),
       DirRow(Azs0123, "POS", <<"2">>, Tid2, Ip2),
       DirRow(Azs0123, "ARM", <<"2">>, Tid1, <<>>) >>

\* workplace 3 resolves to one row without a terminal id, workplace 1 to two rows
DirectoryB ==
    << DirRow(Azs0123, "POS", <<"3">>, <<>>, Ip2),
       DirRow(Azs0123, "POS", <<"1">>, Tid1, Ip1),
       DirRow(Azs0123, "ARM", <<"1">>, Tid2, Ip2) >>

Directories == {DirectoryA, DirectoryB}

\* workplaces 1 and 2 resolve to one row each
DirectoryC ==
    << DirRow(Azs0123, "POS", <<"1">>, Tid1, Ip1),
       DirRow(Azs0123, "POS", <<"2">>, Tid2, Ip2) >>

\* SELECT tid, ip, arm FROM terminal_directory WHERE azs = ? AND plnum = ?
lookup_terminal_directory(directory, azs, plnum) ==
    LET Hit(row) == row.azs = azs /\ row.plnum = plnum
        hits == SelectSeq(directory, Hit)
    IN  [i \in 1..Len(hits) |-> [tid |-> hits[i].tid, ip |-> hits[i].ip, arm |-> hits[i].arm]]

(***************************************************************************)
(* config/enrichment.yaml as get_enrichment_cfg reads it                   *)
(***************************************************************************)
\* ENRICHMENT_CFG_PATH does not exist
NoFile == [exists |-> FALSE]

\* the file holds {"terminal_directory": mapping}
File(mapping) == [exists |-> TRUE, terminal_directory |-> mapping]

PolicyKeys == {"require_unique_match", "write_tid", "write_ip"}

\* the terminal_directory mapping of the file, when there is a file
EnrichmentFiles ==
    {NoFile, File(EmptyMapping), File([enabled |-> FALSE]),
     File([enabled |-> TRUE, confidence |-> [tid |-> 60]])}
    \cup {File(b) : b \in [PolicyKeys -> BOOLEAN]}

get_enrichment_cfg(file) ==
    IF ~ file.exists
    THEN [terminal_directory |-> [enabled |-> FALSE]]
    ELSE [terminal_directory |-> file.terminal_directory]

\* dict.get(key, default)
Get(d, key, default) == IF key \in DOMAIN d THEN d[key] ELSE default

(***************************************************************************)
(* The SQL statements of ingest_raw_and_classify on table values           *)
(* (a table is the sequence of its rows in rowid order)                    *)
(***************************************************************************)
EmptyDb ==
    [messages |-> <<>>, message_classification |-> <<>>, message_entities |-> <<>>,
     sqlite_sequence |-> 0]

\* (variant: INSERT OR IGNORE under a unique (chat_id, tg_message_id))
InsertMessage_OncePerTransportId(d, m) ==
    IF \E i \in 1..Len(d.messages) :
            /\ d.messages[i].chat_id = m.chat_id
            /\ d.messages[i].tg_message_id = m.tg_message_id
    THEN d
    ELSE [d EXCEPT !.messages = Append(@, [id |-> d.sqlite_sequence + 1,
                                           ts_utc |-> m.ts_utc, chat_id |-> m.chat_id,
                                           tg_message_id |-> m.tg_message_id,
                                           text |-> m.text]),
                   !.sqlite_sequence = d.sqlite_sequence + 1]

\* INSERT INTO messages(...): id INTEGER PRIMARY KEY AUTOINCREMENT
InsertMessage(d, m) ==
    LET id == d.sqlite_sequence + 1
    IN  [d EXCEPT !.messages = Append(@, [id |-> id, ts_utc |-> m.ts_utc,
                                           chat_id |-> m.chat_id,
                                           tg_message_id |-> m.tg_message_id,
                                           text |-> m.text]),
                  !.sqlite_sequence = id]

\* the column defaults of message_classification: a new row is unclassified
\* (confidence -1 stands for NULL)
ClassificationDefaults ==
    [problem_domain |-> NULL, problem_symptom |-> NULL, rule_id |-> NULL,
     confidence |-> -1, ruleset_version |-> NULL, is_unclassified |-> 1,
     classified_at_utc |-> NULL, updated_at_utc |-> NULL]

\* the row INSERT INTO message_classification (message_id, chat_id, tg_message_id)
\* creates: the columns it does not name take the table's defaults
NewClassificationRow(message_id, chat_id, tg_message_id) ==
    [message_id |-> message_id, chat_id |-> chat_id, tg_message_id |-> tg_message_id]
    @@ ClassificationDefaults

\* (variant: the INSERT without its ON CONFLICT clause on a table without the key)
EnsureClassification_NoConflictClause(rows, message_id, chat_id, tg_message_id) ==
    Append(rows, NewClassificationRow(message_id, chat_id, tg_message_id))

\* INSERT INTO message_classification ... ON CONFLICT(message_id) DO NOTHING
EnsureClassification(rows, message_id, chat_id, tg_message_id) ==
    IF \E i \in 1..Len(rows) : rows[i].message_id = message_id
    THEN rows
    ELSE Append(rows, NewClassificationRow(message_id, chat_id, tg_message_id))

\* (variant: the UPDATE without "is_unclassified = 0")
UpdateClassification_FlagKept(rows, message_id, match, ruleset_version, ts_utc) ==
    [i \in 1..Len(rows) |->
        IF rows[i].message_id = message_id
        THEN [rows[i] EXCEPT !.problem_domain = "PROBLEM",
                             !.problem_symptom = Get(match, "code", NULL),
                             !.rule_id = Get(match, "rule_id", NULL),
                             !.confidence = Get(match, "weight", 0),
                             !.ruleset_version = ruleset_version,
                             !.classified_at_utc = ts_utc,
                             !.updated_at_utc = ts_utc]
        ELSE rows[i]]

\* UPDATE message_classification SET ... WHERE message_id = ?
UpdateClassification(rows, message_id, match, ruleset_version, ts_utc) ==
    [i \in 1..Len(rows) |->
        IF rows[i].message_id = message_id
        THEN [rows[i] EXCEPT !.problem_domain = "PROBLEM",
                             !.problem_symptom = Get(match, "code", NULL),
                             !.rule_id = Get(match, "rule_id", NULL),
                             !.confidence = Get(match, "weight", 0),
                             !.ruleset_version = ruleset_version,
                             !.is_unclassified = 0,
                             !.classified_at_utc = ts_utc,
                             !.updated_at_utc = ts_utc]
        ELSE rows[i]]

EntityRow(message_id, entity_type, entity_value, entity_raw, confidence, extractor, ts_utc) ==
    [message_id |-> message_id, entity_type |-> entity_type,
     entity_value |-> entity_value, entity_raw |-> entity_raw,
     confidence |-> confidence, extractor |-> extractor, created_at_utc |-> ts_utc]

SameKey(a, b) ==
    /\ a.message_id = b.message_id
    /\ a.entity_type = b.entity_type
    /\ a.entity_value = b.entity_value

\* (variant: INSERT OR REPLACE, which deletes the row that holds the key)
InsertOrIgnoreEntity_Replace(rows, row) ==
    LET Other(r) == ~ SameKey(r, row)
    IN  Append(SelectSeq(rows, Other), row)

\* INSERT OR IGNORE INTO message_entities under UNIQUE(message_id, entity_type, entity_value)
InsertOrIgnoreEntity(rows, row) ==
    IF \E i \in 1..Len(rows) : SameKey(rows[i], row) THEN rows ELSE Append(rows, row)

\* SELECT entity_type, entity_value FROM message_entities WHERE message_id = ?
\* (no ORDER BY: the values of one type, in an order the code does not choose)
EntityValues(rows, message_id, entity_type) ==
    {rows[i].entity_value : i \in {j \in 1..Len(rows) :
        rows[j].message_id = message_id /\ rows[j].entity_type = entity_type}}

DirectoryExtractor == <<"directory", ":", "v1">>

(***************************************************************************)
(* rules_engine: _sorted_rules and classify_text                           *)
(***************************************************************************)
\* Python None in matched_pat, and as the result of classify_text
None == NULL

NoResult == EmptyMapping

Reverse(xs) == [i \in 1..Len(xs) |-> xs[Len(xs) + 1 - i]]

\* (variant: the key with its two components swapped)
SortKeyLess_WeightFirst(a, b) ==
    \/ a.weight < b.weight
    \/ a.weight = b.weight /\ a.priority < b.priority

\* sort_key(r) = (int(priority), float(weight)); tuples compare lexicographically
SortKeyLess(a, b) ==
    \/ a.priority < b.priority
    \/ a.priority = b.priority /\ a.weight < b.weight

\* one insertion of a stable ascending sort: x goes after the items not greater
RECURSIVE InsertAscending(_, _)
InsertAscending(x, xs) ==
    IF xs = <<>> THEN <<x>>
    ELSE IF SortKeyLess(x, Head(xs)) THEN <<x>> \o xs
    ELSE <<Head(xs)>> \o InsertAscending(x, Tail(xs))

RECURSIVE StableSortAscending(_)
StableSortAscending(xs) ==
    IF xs = <<>> THEN <<>>
    ELSE InsertAscending(xs[Len(xs)], StableSortAscending(SubSeq(xs, 1, Len(xs) - 1)))

\* (variant: sorted(xs, key=sort_key)[::-1], which turns ties around)
SortedReverse_TiesTurned(xs) == Reverse(StableSortAscending(xs))

\* sorted(xs, key=sort_key, reverse=True): the list is reversed, sorted stably
\* in ascending order and reversed again, so equal keys keep their order
SortedReverse(xs) == Reverse(StableSortAscending(Reverse(xs)))

IsEnabled(r) == r.enabled = TRUE

_sorted_rules(rules) == SortedReverse(SelectSeq(rules, IsEnabled))

\* (variant: "continue" instead of "break" on a malformed include pattern)
RECURSIVE MatchedInclude_PassesOverMalformed(_, _)
MatchedInclude_PassesOverMalformed(include_any, text) ==
    IF include_any = <<>> THEN None
    ELSE IF ReError(Head(include_any))
         THEN MatchedInclude_PassesOverMalformed(Tail(include_any), text)
    ELSE IF Search(Head(include_any), text) THEN Head(include_any)
    ELSE MatchedInclude_PassesOverMalformed(Tail(include_any), text)

\* the loop over include_any: the first matching pattern, None when a pattern
\* is malformed before any matched or when none matches
RECURSIVE MatchedInclude(_, _)
MatchedInclude(include_any, text) ==
    IF include_any = <<>> THEN None
    ELSE IF ReError(Head(include_any)) THEN None
    ELSE IF Search(Head(include_any), text) THEN Head(include_any)
    ELSE MatchedInclude(Tail(include_any), text)

\* "if not matched_pat": None and the empty string are falsy
Falsy(pat) == pat = None \/ pat = ReEmptyString

\* (variant: "break" instead of "continue" on a malformed exclude pattern)
RECURSIVE Excluded_StopsAtMalformed(_, _)
Excluded_StopsAtMalformed(exclude_any, text) ==
    IF exclude_any = <<>> THEN FALSE
    ELSE IF ReError(Head(exclude_any)) THEN FALSE
    ELSE IF Search(Head(exclude_any), text) THEN TRUE
    ELSE Excluded_StopsAtMalformed(Tail(exclude_any), text)

\* (variant: a malformed exclude pattern counts as a match)
RECURSIVE Excluded_MalformedMatches(_, _)
Excluded_MalformedMatches(exclude_any, text) ==
    IF exclude_any = <<>> THEN FALSE
    ELSE IF ReError(Head(exclude_any)) THEN TRUE
    ELSE IF Search(Head(exclude_any), text) THEN TRUE
    ELSE Excluded_MalformedMatches(Tail(exclude_any), text)

\* the loop over exclude_any: a malformed pattern is passed over
RECURSIVE Excluded(_, _)
Excluded(exclude_any, text) ==
    IF exclude_any = <<>> THEN FALSE
    ELSE IF ReError(Head(exclude_any)) THEN Excluded(Tail(exclude_any), text)
    ELSE IF Search(Head(exclude_any), text) THEN TRUE
    ELSE Excluded(Tail(exclude_any), text)

MatchResult(r, matched_pat) ==
    [code |-> r.code, rule_id |-> r.id, priority |-> r.priority, weight |-> r.weight,
     hint_symptom |-> r.hint_symptom, matched_include |-> matched_pat]

\* the loop over the candidates: the first one that survives both filters
RECURSIVE FirstSurvivor(_, _)
FirstSurvivor(candidates, text) ==
    IF candidates = <<>> THEN NoResult
    ELSE LET r == Head(candidates)
             matched_pat == MatchedInclude(r.include_any, text)
         IN  IF Falsy(matched_pat) THEN FirstSurvivor(Tail(candidates), text)
             ELSE IF Excluded(r.exclude_any, text) THEN FirstSurvivor(Tail(candidates), text)
             ELSE MatchResult(r, matched_pat)

classify_text(text, data) ==
    IF text = <<>> THEN NoResult
    ELSE FirstSurvivor(_sorted_rules(data.problem_rules), text)

(***************************************************************************)
(* rules_engine.validate_rules.  A key of a mapping is absent or holds a   *)
(* value of its YAML type, so "r.get(key) is an instance of the type" is   *)
(* "the key is present".                                                   *)
(***************************************************************************)
\* "not x.strip()" for a pattern string
BlankPattern(regex) == regex \in {ReEmptyString, ReBlank}

Has(d, key) == key \in DOMAIN d

RulesValidationError(message) == [raised |-> "RulesValidationError", message |-> message]

\* return (len(rules), len(codes))
Counts(rules_count, codes_count) == [returned |-> <<rules_count, codes_count>>]

NoError == ""

\* (variant: the weight test without its upper limit)
WeightInRange_NoUpperLimit(weight) == 0 <= weight

\* 0.0 <= weight <= 1.0
WeightInRange(weight) == 0 <= weight /\ weight <= 100

\* the body of the loop over the rules: the error it raises for rule r, if any
ValidateRule(r, codes, seen_ids) ==
    IF ~ Has(r, "id") \/ r.id = "" THEN "has no valid 'id'"
    ELSE IF r.id \in seen_ids THEN "Duplicate rule id"
    ELSE IF ~ Has(r, "enabled") THEN "'enabled' must be boolean"
    ELSE IF ~ Has(r, "code") \/ r.code = "" THEN "'code' must be non-empty string"
    ELSE IF r.code \notin codes THEN "code is not present in problem_taxonomy.codes"
    ELSE IF ~ Has(r, "priority") THEN "'priority' must be integer"
    ELSE IF ~ Has(r, "weight") THEN "'weight' must be number"
    ELSE IF ~ WeightInRange(r.weight) THEN "'weight' must be between 0.0 and 1.0"
    ELSE IF ~ Has(r, "include_any") \/ r.include_any = <<>>
         THEN "include_any must be a non-empty list"
    ELSE IF \E i \in 1..Len(r.include_any) : BlankPattern(r.include_any[i])
         THEN "include_any must contain only non-empty strings"
    ELSE IF ~ Has(r, "exclude_any") THEN "exclude_any must be present"
    ELSE IF \E i \in 1..Len(r.exclude_any) : BlankPattern(r.exclude_any[i])
         THEN "exclude_any must contain only non-empty strings"
    ELSE NoError

\* the loop over the rules: the first error
RECURSIVE ValidateRuleList(_, _, _)
ValidateRuleList(rules, codes, seen_ids) ==
    IF rules = <<>> THEN NoError
    ELSE LET error == ValidateRule(Head(rules), codes, seen_ids)
         IN  IF error # NoError THEN error
             ELSE ValidateRuleList(Tail(rules), codes, seen_ids \cup {Head(rules).id})

validate_rules(data) ==
    LET taxonomy == Get(data, "problem_taxonomy", EmptyMapping)
        codes    == Get(taxonomy, "codes", {})
        rules    == Get(data, "problem_rules", <<>>)
        error    == ValidateRuleList(rules, codes, {})
    IN  IF codes = {}
        THEN RulesValidationError("problem_taxonomy.codes must be a non-empty mapping")
        ELSE IF error # NoError THEN RulesValidationError(error)
        ELSE Counts(Len(rules), Cardinality(codes))

(***************************************************************************)
(* Rule sets load_rules can return: any mapping, validate_rules is not     *)
(* applied to it by bot.py                                                 *)
(***************************************************************************)
MaxRules == 3

TaxonomyCodes == {"POS_DOWN", "RECONCILE"}

RuleIds == <<"r1", "r2", "r3", "r4", "r5">>

\* (priority, weight) pairs: priority outranks weight, weight breaks ties
Ranks == {<<10, 50>>, <<5, 100>>, <<5, 50>>}

\* (include_any, exclude_any) pairs
Filters ==
    { <<<<RePos>>, <<>>>>,
      <<<<RePos>>, <<ReDown>>>>,
      <<<<ReBroken, RePos>>, <<>>>>,
      <<<<RePos>>, <<ReBroken, ReDown>>>>,
      <<<<ReReboot, RePos>>, <<ReBroken>>>>,
      <<<<ReEmptyString>>, <<>>>> }

RuleBody(enabled, code, rank, filter) ==
    [enabled |-> enabled, code |-> code, priority |-> rank[1], weight |-> rank[2],
     include_any |-> filter[1], exclude_any |-> filter[2], hint_symptom |-> "hint"]

RuleBodies ==
    {RuleBody(TRUE, "POS_DOWN", rank, filter) : rank \in Ranks, filter \in Filters}
    \cup {RuleBody(FALSE, "RECONCILE", <<10, 50>>, <<<<RePos>>, <<>>>>),
          RuleBody(TRUE, "GHOST", <<10, 50>>, <<<<RePos>>, <<>>>>),
          RuleBody(TRUE, "GHOST", <<5, 50>>, <<<<RePos>>, <<ReDown>>>>)}

\* a rule of the file: its id is its place in the file
WithId(body, i) == [id |-> RuleIds[i]] @@ body

\* the mapping load_rules returns for a file with these rules
RuleSet(bodies) ==
    [problem_taxonomy |-> [codes |-> TaxonomyCodes],
     problem_rules |-> [i \in 1..Len(bodies) |-> WithId(bodies[i], i)],
     ruleset_version |-> "1"]

ClassifyTexts == {TxtEmpty, TxtPos, TxtPlain}

(***************************************************************************)
(* Inputs of ingest_raw_and_classify                                       *)
(***************************************************************************)
MaxMessages == 2

Texts == {TxtBlank, TxtPlain, TxtSiteList, TxtSiteOne, TxtSiteDup}

\* the mapping m: the transport redelivers the same message id
RawMessages ==
    {[ts_utc |-> "2026-01-01T00:00:00+00:00", chat_id |-> 100,
      tg_message_id |-> 7, text |-> t] : t \in Texts}

\* match: None, or the dict bot.on_message builds from a MatchResult
NoMatch == EmptyMapping

MatchArgs == {NoMatch, [code |-> "POS_DOWN", rule_id |-> "r1", weight |-> 80]}

RulesetVersions == {"1"}

(***************************************************************************)
(* State                                                                   *)
(***************************************************************************)
VARIABLES
    terminal_directory, \* the terminal_directory table
    enrichment_file,    \* config/enrichment.yaml
    db,                 \* the committed tables, as any other connection reads them
    tx,                 \* the tables as the ingesting connection sees them
    pc,                 \* position of the running ingest_raw_and_classify call
    call,               \* its arguments and locals
    outcome,            \* how the last call ended
    returned,           \* the message ids the calls have returned so far
    RULES_DATA,         \* bot.RULES_DATA = load_rules()
    classified,         \* the text last handed to classify_text
    res,                \* what classify_text returned for it
    validation,         \* how validate_rules(RULES_DATA) ended, when it was called
    entities_data,      \* the entity rule set handed to extract_entities
    extracted,          \* the text last handed to extract_entities
    found               \* the list extract_entities returned for it

vars == <<terminal_directory, enrichment_file, db, tx, pc, call, outcome, returned,
          RULES_DATA, classified, res, validation, entities_data, extracted, found>>

extractVars == <<entities_data, extracted, found>>

ingestVars == <<terminal_directory, enrichment_file, db, tx, pc, call, outcome, returned>>

classifyVars == <<RULES_DATA, classified, res, validation>>

NotValidated == EmptyMapping

NoCall ==
    [m |-> [ts_utc |-> "", chat_id |-> 0, tg_message_id |-> 0, text |-> <<>>],
     match |-> NoMatch, ruleset_version |-> "", message_id |-> 0, entities |-> <<>>]

IngestStart ==
    /\ db = EmptyDb
    /\ tx = EmptyDb
    /\ pc = "idle"
    /\ call = NoCall
    /\ outcome = [status |-> "none", message_id |-> 0]
    /\ returned = {}

ClassifyStart ==
    /\ classified = <<>>
    /\ res = NoResult
    /\ validation = NotValidated

ExtractStart ==
    /\ extracted = <<>>
    /\ found = <<>>

Init ==
    /\ terminal_directory \in Directories
    /\ enrichment_file \in EnrichmentFiles
    /\ IngestStart
    /\ RULES_DATA = RuleSet(<<>>)
    /\ ClassifyStart
    /\ entities_data = ENTITIES_DATA
    /\ ExtractStart

Config == <<terminal_directory, enrichment_file>>

(***************************************************************************)
(* ingest_raw_and_classify, statement by statement inside                  *)
(* "with sqlite3.connect(db_path) as con"                                  *)
(***************************************************************************)
\* INSERT INTO messages; message_id = cur.lastrowid
IngestInsertMessage(m, match, ruleset_version) ==
    /\ pc = "idle"
    /\ Len(db.messages) < MaxMessages
    /\ tx' = InsertMessage(tx, m)
    /\ call' = [m |-> m, match |-> match, ruleset_version |-> ruleset_version,
                message_id |-> tx'.sqlite_sequence, entities |-> <<>>]
    /\ pc' = "ensure"
    /\ outcome' = [status |-> "running", message_id |-> 0]
    /\ UNCHANGED <<Config, db, returned, classifyVars, extractVars>>

\* 1) the classification row is ensured
IngestEnsureClassification ==
    /\ pc = "ensure"
    /\ tx' = [tx EXCEPT !.message_classification =
                EnsureClassification(@, call.message_id, call.m.chat_id,
                                     call.m.tg_message_id)]
    /\ pc' = "update"
    /\ UNCHANGED <<Config, db, call, outcome, returned, classifyVars, extractVars>>

\* (variant: the UPDATE finds its rows by (chat_id, tg_message_id))
IngestUpdateClassification_ByTransportId ==
    /\ pc = "update"
    /\ tx' = IF call.match # NoMatch
             THEN [tx EXCEPT !.message_classification =
                     [i \in 1..Len(@) |->
                        IF /\ @[i].chat_id = call.m.chat_id
                           /\ @[i].tg_message_id = call.m.tg_message_id
                        THEN UpdateClassification(<<@[i]>>, @[i].message_id, call.match,
                                                  call.ruleset_version, call.m.ts_utc)[1]
                        ELSE @[i]]]
             ELSE tx
    /\ pc' = "extract"
    /\ UNCHANGED <<Config, db, call, outcome, returned, classifyVars, extractVars>>

\* 2) if match: UPDATE message_classification
IngestUpdateClassification ==
    /\ pc = "update"
    /\ tx' = IF call.match # NoMatch
             THEN [tx EXCEPT !.message_classification =
                     UpdateClassification(@, call.message_id, call.match,
                                          call.ruleset_version, call.m.ts_utc)]
             ELSE tx
    /\ pc' = "extract"
    /\ UNCHANGED <<Config, db, call, outcome, returned, classifyVars, extractVars>>

\* 3) text = (m.get("text") or "").strip(); entities = extract_entities(text)
IngestExtractEntities ==
    /\ pc = "extract"
    /\ LET text == Strip(call.m.text)
       IN  call' = [call EXCEPT !.entities =
                       IF text # <<>> THEN extract_entities(text, ENTITIES_DATA)
                       ELSE <<>>]
    /\ pc' = "entities"
    /\ UNCHANGED <<Config, db, tx, outcome, returned, classifyVars, extractVars>>

\* (variant: a connection in autocommit mode, every statement committed at once)
IngestInsertEntity_Autocommit ==
    /\ pc = "entities"
    /\ call.entities # <<>>
    /\ LET e == Head(call.entities)
       IN  tx' = [tx EXCEPT !.message_entities =
                    InsertOrIgnoreEntity(@,
                        EntityRow(call.message_id, e.entity_type, e.entity_value,
                                  e.entity_raw, e.confidence, e.extractor,
                                  call.m.ts_utc))]
    /\ db' = tx'
    /\ call' = [call EXCEPT !.entities = Tail(@)]
    /\ UNCHANGED <<Config, pc, outcome, returned, classifyVars, extractVars>>

\* for e in entities: INSERT OR IGNORE INTO message_entities
IngestInsertEntity ==
    /\ pc = "entities"
    /\ call.entities # <<>>
    /\ LET e == Head(call.entities)
       IN  tx' = [tx EXCEPT !.message_entities =
                    InsertOrIgnoreEntity(@,
                        EntityRow(call.message_id, e.entity_type, e.entity_value,
                                  e.entity_raw, e.confidence, e.extractor,
                                  call.m.ts_utc))]
    /\ call' = [call EXCEPT !.entities = Tail(@)]
    /\ UNCHANGED <<Config, db, pc, outcome, returned, classifyVars, extractVars>>

\* (variant: the ip statement nested under "if write_tid and tid:")
WriteDirectoryEntities_IpUnderTid(rows, message_id, row, write_tid, write_ip, tid_conf, ip_conf, ts_utc) ==
    LET withTid ==
            InsertOrIgnoreEntity(rows,
                EntityRow(message_id, "tid", row.tid, NullChars, tid_conf,
                          DirectoryExtractor, ts_utc))
    IN  IF write_tid /\ row.tid # <<>>
        THEN IF write_ip /\ row.ip # <<>>
             THEN InsertOrIgnoreEntity(withTid,
                     EntityRow(message_id, "ip", row.ip, NullChars, ip_conf,
                               DirectoryExtractor, ts_utc))
             ELSE withTid
        ELSE rows

\* the rows the two directory INSERT OR IGNORE statements leave, for one directory row
WriteDirectoryEntities(rows, message_id, row, write_tid, write_ip, tid_conf, ip_conf, ts_utc) ==
    LET withTid ==
            IF write_tid /\ row.tid # <<>>
            THEN InsertOrIgnoreEntity(rows,
                    EntityRow(message_id, "tid", row.tid, NullChars, tid_conf,
                              DirectoryExtractor, ts_utc))
            ELSE rows
    IN  IF write_ip /\ row.ip # <<>>
        THEN InsertOrIgnoreEntity(withTid,
                EntityRow(message_id, "ip", row.ip, NullChars, ip_conf,
                          DirectoryExtractor, ts_utc))
        ELSE withTid

\* (variant: "if rows:" alone, the unique-match test left out)
Enrichment_AnyMatch(rows, message_id, ts_utc, file, directory) ==
    LET cfg            == Get(get_enrichment_cfg(file), "terminal_directory", EmptyMapping)
        write_tid      == Get(cfg, "write_tid", TRUE)
        write_ip       == Get(cfg, "write_ip", TRUE)
        conf           == Get(cfg, "confidence", EmptyMapping)
        tid_conf       == Get(conf, "tid", 95)
        ip_conf        == Get(conf, "ip", 80)
        azs_vals       == EntityValues(rows, message_id, "azs")
        wp_vals        == EntityValues(rows, message_id, "workplace")
        Found(azs_val, wp_val) == lookup_terminal_directory(directory, azs_val, wp_val)
    IN  IF ~ Get(cfg, "enabled", TRUE) THEN {rows}
        ELSE IF azs_vals = {} \/ wp_vals = {} THEN {rows}
        ELSE UNION {
                LET dir_rows == Found(azs_val, wp_val)
                IN  IF dir_rows # <<>>
                    THEN {WriteDirectoryEntities(rows, message_id, dir_rows[i], write_tid,
                                                 write_ip, tid_conf, ip_conf, ts_utc)
                            : i \in 1..Len(dir_rows)}
                    ELSE {rows}
                : <<azs_val, wp_val>> \in azs_vals \X wp_vals}

\* (variant: the entities of every returned row are written, not of one alone)
Enrichment_EveryRow(rows, message_id, ts_utc, file, directory) ==
    LET cfg            == Get(get_enrichment_cfg(file), "terminal_directory", EmptyMapping)
        require_unique == Get(cfg, "require_unique_match", TRUE)
        write_tid      == Get(cfg, "write_tid", TRUE)
        write_ip       == Get(cfg, "write_ip", TRUE)
        conf           == Get(cfg, "confidence", EmptyMapping)
        tid_conf       == Get(conf, "tid", 95)
        ip_conf        == Get(conf, "ip", 80)
        azs_vals       == EntityValues(rows, message_id, "azs")
        wp_vals        == EntityValues(rows, message_id, "workplace")
        Found(azs_val, wp_val) == lookup_terminal_directory(directory, azs_val, wp_val)
        Written(from, row) ==
            WriteDirectoryEntities(from, message_id, row, write_tid, write_ip,
                                   tid_conf, ip_conf, ts_utc)
    IN  IF ~ Get(cfg, "enabled", TRUE) THEN {rows}
        ELSE IF azs_vals = {} \/ wp_vals = {} THEN {rows}
        ELSE UNION {
                LET dir_rows == Found(azs_val, wp_val)
                IN  IF (~ require_unique \/ Len(dir_rows) = 1) /\ dir_rows # <<>>
                    THEN {Written(Written(rows, dir_rows[1]), dir_rows[Len(dir_rows)])}
                    ELSE {rows}
                : <<azs_val, wp_val>> \in azs_vals \X wp_vals}

\* 4) the enrichment block: the message_entities tables it can leave.  The
\* SELECTs have no ORDER BY, so "the first" azs, workplace and directory row
\* are any of those selected.
Enrichment(rows, message_id, ts_utc, file, directory) ==
    LET cfg            == Get(get_enrichment_cfg(file), "terminal_directory", EmptyMapping)
        require_unique == Get(cfg, "require_unique_match", TRUE)
        write_tid      == Get(cfg, "write_tid", TRUE)
        write_ip       == Get(cfg, "write_ip", TRUE)
        conf           == Get(cfg, "confidence", EmptyMapping)
        tid_conf       == Get(conf, "tid", 95)
        ip_conf        == Get(conf, "ip", 80)
        azs_vals       == EntityValues(rows, message_id, "azs")
        wp_vals        == EntityValues(rows, message_id, "workplace")
        Found(azs_val, wp_val) == lookup_terminal_directory(directory, azs_val, wp_val)
    IN  IF ~ Get(cfg, "enabled", TRUE) THEN {rows}
        ELSE IF azs_vals = {} \/ wp_vals = {} THEN {rows}
        ELSE UNION {
                LET dir_rows == Found(azs_val, wp_val)
                IN  IF (~ require_unique \/ Len(dir_rows) = 1) /\ dir_rows # <<>>
                    THEN {WriteDirectoryEntities(rows, message_id, dir_rows[i], write_tid,
                                                 write_ip, tid_conf, ip_conf, ts_utc)
                            : i \in 1..Len(dir_rows)}
                    ELSE {rows}
                : <<azs_val, wp_val>> \in azs_vals \X wp_vals}

IngestEnrich ==
    /\ pc = "entities"
    /\ call.entities = <<>>
    /\ \E rows \in Enrichment(tx.message_entities, call.message_id, call.m.ts_utc,
                              enrichment_file, terminal_directory) :
            tx' = [tx EXCEPT !.message_entities = rows]
    /\ pc' = "commit"
    /\ UNCHANGED <<Config, db, call, outcome, returned, classifyVars, extractVars>>

\* con.commit(); return message_id
IngestCommit ==
    /\ pc = "commit"
    /\ db' = tx
    /\ pc' = "idle"
    /\ outcome' = [status |-> "returned", message_id |-> call.message_id]
    /\ returned' = returned \cup {call.message_id}
    /\ call' = NoCall
    /\ UNCHANGED <<Config, tx, classifyVars, extractVars>>

\* (variant: the connection is used without the context manager's rollback)
IngestFail_NoRollback ==
    /\ pc # "idle"
    /\ pc' = "idle"
    /\ outcome' = [status |-> "raised", message_id |-> 0]
    /\ call' = NoCall
    /\ UNCHANGED <<Config, db, tx, returned, classifyVars, extractVars>>

\* a statement raises: the context manager rolls the transaction back and the
\* exception leaves ingest_raw_and_classify
IngestFail ==
    /\ pc # "idle"
    /\ tx' = db
    /\ pc' = "idle"
    /\ outcome' = [status |-> "raised", message_id |-> 0]
    /\ call' = NoCall
    /\ UNCHANGED <<Config, db, returned, classifyVars, extractVars>>

Next ==
    \/ \E m \in RawMessages, match \in MatchArgs, v \in RulesetVersions :
            IngestInsertMessage(m, match, v)
    \/ IngestEnsureClassification
    \/ IngestUpdateClassification
    \/ IngestExtractEntities
    \/ IngestInsertEntity
    \/ IngestEnrich
    \/ IngestCommit
    \/ IngestFail

Spec == Init /\ [][Next]_vars

(***************************************************************************)
(* The ingestion transaction over a directory that holds exactly one row   *)
(* for each workplace of a site                                            *)
(***************************************************************************)
InitEnrich ==
    /\ terminal_directory = DirectoryC
    /\ enrichment_file \in EnrichmentFiles
    /\ IngestStart
    /\ RULES_DATA = RuleSet(<<>>)
    /\ ClassifyStart
    /\ entities_data = ENTITIES_DATA
    /\ ExtractStart

SpecEnrich == InitEnrich /\ [][Next]_vars

(***************************************************************************)
(* The classifier on its own: bot.py loads a rule set at import and hands  *)
(* every non-empty message text to classify_text; rules_engine's commands  *)
(* hand it any text                                                        *)
(***************************************************************************)
InitClassify ==
    /\ terminal_directory = DirectoryA
    /\ enrichment_file = NoFile
    /\ IngestStart
    /\ \E n \in 0..MaxRules : \E bodies \in [1..n -> RuleBodies] :
            RULES_DATA = RuleSet(bodies)
    /\ ClassifyStart
    /\ entities_data = ENTITIES_DATA
    /\ ExtractStart

Classify(text) ==
    /\ classified' = text
    /\ res' = classify_text(text, RULES_DATA)
    /\ UNCHANGED <<ingestVars, RULES_DATA, validation, extractVars>>

NextClassify == \E text \in ClassifyTexts : Classify(text)

SpecClassify == InitClassify /\ [][NextClassify]_vars

(***************************************************************************)
(* The validator on its own: rules_engine's commands hand the mapping      *)
(* load_rules returned to validate_rules                                   *)
(***************************************************************************)
MaxFileRules == 2

GoodRule ==
    [id |-> "r1", enabled |-> TRUE, code |-> "POS_DOWN", priority |-> 5, weight |-> 50,
     include_any |-> <<RePos>>, exclude_any |-> <<>>, hint_symptom |-> "hint"]

RuleKeys == {"id", "enabled", "code", "priority", "weight", "include_any", "exclude_any"}

\* the mapping without one of its keys
Without(d, key) == [k \in DOMAIN d \ {key} |-> d[k]]

\* rules of a file: well-formed ones, and ones with one defect
FileRules ==
    { GoodRule,
      [GoodRule EXCEPT !.id = "r2", !.enabled = FALSE, !.code = "RECONCILE"],
      [GoodRule EXCEPT !.id = "r2", !.weight = 0, !.exclude_any = <<ReDown>>],
      [GoodRule EXCEPT !.weight = 100, !.include_any = <<ReBroken, RePos>>],
      [GoodRule EXCEPT !.id = ""],
      [GoodRule EXCEPT !.code = ""],
      [GoodRule EXCEPT !.code = "GHOST"],
      [GoodRule EXCEPT !.weight = 101],
      [GoodRule EXCEPT !.weight = -1],
      [GoodRule EXCEPT !.include_any = <<>>],
      [GoodRule EXCEPT !.include_any = <<RePos, ReBlank>>],
      [GoodRule EXCEPT !.id = "r2", !.exclude_any = <<ReEmptyString>>] }
    \cup {Without(GoodRule, key) : key \in RuleKeys}

\* the problem_taxonomy part of a file
FileTaxonomies ==
    { [problem_taxonomy |-> [codes |-> TaxonomyCodes]],
      [problem_taxonomy |-> [codes |-> {}]],
      [problem_taxonomy |-> EmptyMapping],
      EmptyMapping }

InitValidate ==
    /\ terminal_directory = DirectoryA
    /\ enrichment_file = NoFile
    /\ IngestStart
    /\ \E taxonomy \in FileTaxonomies :
       \E n \in 0..MaxFileRules : \E rules \in [1..n -> FileRules] :
            RULES_DATA = taxonomy @@ [problem_rules |-> rules, ruleset_version |-> "1"]
    /\ ClassifyStart
    /\ entities_data = ENTITIES_DATA
    /\ ExtractStart

\* cmd_validate: data = load_rules(); validate_rules(data)
Validate ==
    /\ validation' = validate_rules(RULES_DATA)
    /\ UNCHANGED <<ingestVars, RULES_DATA, classified, res, extractVars>>

NextValidate == Validate

SpecValidate == InitValidate /\ [][NextValidate]_vars

(***************************************************************************)
(* The extractor on its own: extract_entities(text, data) with an entity   *)
(* rule set passed by the caller                                           *)
(***************************************************************************)
MaxEntityTypes == 2

EntityRule(name, regex, confidence) ==
    [name |-> name, regex |-> regex, confidence |-> confidence]

\* items of the "patterns" mapping: an entity type and its rules
PatternItems ==
    { [entity_type |-> "azs", rules |-> <<EntityRule("azs_num", ReAzs, 90)>>],
      [entity_type |-> "workplace", rules |-> <<EntityRule("rm_list", ReWorkplace, 80)>>],
      [entity_type |-> "workplace",
       rules |-> <<EntityRule("rm_one", ReWorkplaceAlt, 60),
                   EntityRule("rm_list", ReWorkplace, 80)>>],
      [entity_type |-> "workplace",
       rules |-> <<EntityRule("rm_bad", ReBroken, 50),
                   EntityRule("rm_list", ReWorkplace, 80)>>],
      [entity_type |-> "ip", rules |-> <<EntityRule("ipv4", ReIp, 70)>>],
      [entity_type |-> "terminal", rules |-> <<EntityRule("pos", RePos, 50)>>] }

\* a mapping has each key once
DistinctTypes(items) ==
    \A i, j \in 1..Len(items) : items[i].entity_type = items[j].entity_type => i = j

ExtractTexts ==
    {TxtEmpty, TxtPlain, TxtSiteList, TxtSiteOne, TxtSiteDup, TxtSiteThree, TxtLongNum,
     TxtComma}

InitExtract ==
    /\ terminal_directory = DirectoryA
    /\ enrichment_file = NoFile
    /\ IngestStart
    /\ RULES_DATA = RuleSet(<<>>)
    /\ ClassifyStart
    /\ \E n \in 0..MaxEntityTypes : \E items \in [1..n -> PatternItems] :
            /\ DistinctTypes(items)
            /\ entities_data = [extractor |-> "regex:v1", patterns |-> items]
    /\ ExtractStart

Extract(text) ==
    /\ extracted' = text
    /\ found' = extract_entities(text, entities_data)
    /\ UNCHANGED <<ingestVars, classifyVars, entities_data>>

NextExtract == \E text \in ExtractTexts : Extract(text)

SpecExtract == InitExtract /\ [][NextExtract]_vars

(***************************************************************************)
(* Properties of the ingestion transaction                                 *)
(***************************************************************************)
Range(xs) == {xs[i] : i \in 1..Len(xs)}

MessageIdsOf(d) ==
    {r.id : r \in Range(d.messages)}
    \cup {r.message_id : r \in Range(d.message_classification)}
    \cup {r.message_id : r \in Range(d.message_entities)}

\* C1: atomicity of ingest_raw_and_classify.  A call that raised after the
\* message insert has left nothing behind: the committed tables hold rows only
\* for message ids that a call returned, the connection holds no uncommitted
\* row once the call is over, and the caller saw the error.
C1_Atomicity ==
    /\ MessageIdsOf(db) \subseteq returned
    /\ pc = "idle" => tx = db
    /\ outcome.status = "raised" => pc = "idle" /\ MessageIdsOf(tx) \subseteq returned

\* a call raised after an earlier one had committed
C1_Witness ==
    /\ outcome.status = "raised"
    /\ Len(db.messages) = 1
    /\ db.message_entities # <<>>

ClassificationRowsOf(rows, message_id) ==
    {i \in 1..Len(rows) : rows[i].message_id = message_id}

\* C2: every persisted message id has exactly one message_classification row,
\* and applying the create-if-absent statement again for that id changes nothing.
C2_OneClassificationRow ==
    \A m \in Range(db.messages) :
        /\ Cardinality(ClassificationRowsOf(db.message_classification, m.id)) = 1
        /\ EnsureClassification(db.message_classification, m.id, m.chat_id,
                                m.tg_message_id) = db.message_classification

C2_Witness ==
    /\ Len(db.messages) = 2
    /\ Len(db.message_classification) = 2
    /\ db.message_classification[1].is_unclassified = 0

NoDuplicateKeys(rows) ==
    \A i, j \in 1..Len(rows) : SameKey(rows[i], rows[j]) => i = j

IsPrefix(xs, ys) == Len(xs) <= Len(ys) /\ SubSeq(ys, 1, Len(xs)) = xs

\* C3: no two message_entities rows share (message_id, entity_type,
\* entity_value), and no statement of a running ingest changes or removes a row
\* that is already there: an insert with an existing key is a no-op.
C3_EntityKeyUnique ==
    /\ [](NoDuplicateKeys(tx.message_entities) /\ NoDuplicateKeys(db.message_entities))
    /\ [][pc' # "idle" => IsPrefix(tx.message_entities, tx'.message_entities)]_vars

EnrichmentCfg == Get(get_enrichment_cfg(enrichment_file), "terminal_directory", EmptyMapping)

\* the text held the address 10.0.0.1 and the directory row of the message's
\* workplace holds it too: the directory insert met the existing key
C3_Witness ==
    /\ pc = "commit"
    /\ Get(EnrichmentCfg, "write_ip", TRUE)
    /\ \E r \in Range(tx.message_entities) :
            r.entity_type = "tid" /\ r.extractor = DirectoryExtractor /\ r.entity_value = Tid1
    /\ \E r \in Range(tx.message_entities) :
            /\ r.entity_type = "ip" /\ r.entity_value = Ip1
            /\ r.extractor = ExtractorTag("regex:v1", "ipv4")
            /\ r.confidence = 70
    /\ Cardinality({i \in 1..Len(tx.message_entities) :
            tx.message_entities[i].entity_type = "workplace"}) = 1

\* C8: the classification record a successful ingest commits has its
\* unclassified flag cleared exactly when an outcome was supplied; it then
\* holds the outcome's code, rule id, weight (as confidence) and the ruleset
\* version, and otherwise it is the record as created.
C8_ClassificationApplied ==
    [][(pc = "commit" /\ outcome'.status = "returned") =>
        LET id   == outcome'.message_id
            rows == db'.message_classification
            mine == ClassificationRowsOf(rows, id)
        IN  /\ mine # {}
            /\ \A i \in mine :
                IF call.match # NoMatch
                THEN /\ rows[i].is_unclassified = 0
                     /\ rows[i].problem_symptom = call.match.code
                     /\ rows[i].rule_id = call.match.rule_id
                     /\ rows[i].confidence = call.match.weight
                     /\ rows[i].ruleset_version = call.ruleset_version
                ELSE /\ rows[i].is_unclassified # 0
                     /\ rows[i] = NewClassificationRow(id, call.m.chat_id,
                                                       call.m.tg_message_id)]_vars

\* one message was committed with an outcome and one without
C8_Witness ==
    /\ outcome.status = "returned"
    /\ \E r \in Range(db.message_classification) :
            /\ r.is_unclassified = 0 /\ r.problem_symptom = "POS_DOWN"
            /\ r.rule_id = "r1" /\ r.confidence = 80 /\ r.ruleset_version = "1"
    /\ \E r \in Range(db.message_classification) :
            r.is_unclassified = 1 /\ r.rule_id = NULL

RequireUnique == Get(EnrichmentCfg, "require_unique_match", TRUE) = TRUE

\* the directory rows that are the only row of a (site, workplace) pair of
\* the message
UniqueMatches(rows, message_id) ==
    {lookup_terminal_directory(terminal_directory, p[1], p[2])[1] :
        p \in {q \in EntityValues(rows, message_id, "azs")
                     \X EntityValues(rows, message_id, "workplace") :
                 Len(lookup_terminal_directory(terminal_directory, q[1], q[2])) = 1}}

DirectoryDerived(rows) == {r \in Range(rows) : r.extractor = DirectoryExtractor}

\* C10: under the unique-match policy every directory-derived entity of a
\* message comes from a (site, workplace) pair of that message whose lookup
\* returns exactly one row; a pair with no row or several rows adds nothing.
C10_UniqueMatchOnly ==
    RequireUnique =>
        \A rows \in {db.message_entities, tx.message_entities} :
            \A r \in DirectoryDerived(rows) :
                \E hit \in UniqueMatches(rows, r.message_id) :
                    \/ r.entity_type = "tid" /\ r.entity_value = hit.tid
                    \/ r.entity_type = "ip" /\ r.entity_value = hit.ip

\* a message whose workplace has two directory rows was committed without any
\* directory-derived entity, and one whose workplace has no row likewise
C10_Witness ==
    /\ RequireUnique
    /\ Get(EnrichmentCfg, "enabled", TRUE)
    /\ terminal_directory = DirectoryB
    /\ outcome.status = "returned"
    /\ Len(db.messages) = 1
    /\ db.messages[1].text = TxtSiteDup
    /\ Len(lookup_terminal_directory(terminal_directory, Azs0123, <<"1">>)) = 2
    /\ EntityValues(db.message_entities, 1, "workplace") = {<<"1">>}
    /\ DirectoryDerived(db.message_entities) = {}

WriteTid == Get(EnrichmentCfg, "write_tid", TRUE) = TRUE

WriteIp == Get(EnrichmentCfg, "write_ip", TRUE) = TRUE

Enabled == Get(EnrichmentCfg, "enabled", TRUE) = TRUE

\* the directory lookup for the pair qualifies: exactly one row under the
\* unique-match policy, at least one row without it
Qualifies(azs_val, wp_val) ==
    LET n == Len(lookup_terminal_directory(terminal_directory, azs_val, wp_val))
    IN  IF RequireUnique THEN n = 1 ELSE n >= 1

HasEntity(rows, message_id, entity_type, entity_value) ==
    \E r \in Range(rows) :
        /\ r.message_id = message_id
        /\ r.entity_type = entity_type
        /\ r.entity_value = entity_value

\* the message holds the tid and the ip of a row the lookup of the pair returns
\* (as far as the row has them and the policy writes them)
Contributes(rows, message_id, azs_val, wp_val) ==
    \E row \in Range(lookup_terminal_directory(terminal_directory, azs_val, wp_val)) :
        /\ (WriteTid /\ row.tid # <<>>) => HasEntity(rows, message_id, "tid", row.tid)
        /\ (WriteIp /\ row.ip # <<>>) => HasEntity(rows, message_id, "ip", row.ip)

\* C11: with enrichment enabled every committed message that has a site
\* entity holds, for each of its distinct workplace values whose directory
\* lookup qualifies, the tid and ip entities of that workplace's row.
C11_EveryWorkplaceLookedUp ==
    Enabled =>
        \A m \in Range(db.messages) :
            \A azs_val \in EntityValues(db.message_entities, m.id, "azs") :
                \A wp_val \in EntityValues(db.message_entities, m.id, "workplace") :
                    Qualifies(azs_val, wp_val) =>
                        Contributes(db.message_entities, m.id, azs_val, wp_val)

\* the directory rows of the (site, workplace) pairs of the message
DirectoryRowsOf(rows, message_id) ==
    UNION {Range(lookup_terminal_directory(terminal_directory, p[1], p[2])) :
            p \in EntityValues(rows, message_id, "azs")
                    \X EntityValues(rows, message_id, "workplace")}

\* the message has one site and one workplace, and their lookup qualifies
SinglePairQualifies(rows, message_id) ==
    /\ Cardinality(EntityValues(rows, message_id, "azs")) = 1
    /\ Cardinality(EntityValues(rows, message_id, "workplace")) = 1
    /\ \A azs_val \in EntityValues(rows, message_id, "azs") :
            \A wp_val \in EntityValues(rows, message_id, "workplace") :
                Qualifies(azs_val, wp_val)

\* C12: a directory-derived entity is a 'tid' or an 'ip'; a 'tid' is there
\* only with enrichment enabled, write_tid true and a directory row of the
\* message that holds this non-empty terminal id, an 'ip' only with enrichment
\* enabled, write_ip true and a row that holds this non-empty address.  Each
\* type is written whatever becomes of the other: a committed message whose
\* single (site, workplace) pair qualifies holds the row's tid when write_tid
\* is true and the tid is non-empty, and the row's ip when write_ip is true and
\* the ip is non-empty.  With enrichment disabled (the policy file absent
\* included) there is no directory-derived entity.
C12_EnrichmentGating ==
    /\ \A rows \in {db.message_entities, tx.message_entities} :
            \A r \in DirectoryDerived(rows) :
                /\ Enabled
                /\ enrichment_file # NoFile
                /\ r.entity_value # <<>>
                /\ r.entity_type \in {"tid", "ip"}
                /\ r.entity_type = "tid" =>
                        /\ WriteTid
                        /\ \E row \in DirectoryRowsOf(rows, r.message_id) :
                                row.tid = r.entity_value
                /\ r.entity_type = "ip" =>
                        /\ WriteIp
                        /\ \E row \in DirectoryRowsOf(rows, r.message_id) :
                                row.ip = r.entity_value
    /\ Enabled =>
            \A m \in Range(db.messages) :
                SinglePairQualifies(db.message_entities, m.id) =>
                    \A azs_val \in EntityValues(db.message_entities, m.id, "azs") :
                        \A wp_val \in EntityValues(db.message_entities, m.id, "workplace") :
                            Contributes(db.message_entities, m.id, azs_val, wp_val)

\* the only directory row of the message's workplace has an address and no
\* terminal id: with both types switched on the ip alone was written
C12_Witness ==
    /\ Enabled /\ WriteTid /\ WriteIp
    /\ terminal_directory = DirectoryB
    /\ outcome.status = "returned"
    /\ Len(db.messages) = 1
    /\ db.messages[1].text = TxtSiteOne
    /\ {<<r.entity_type, r.entity_value>> : r \in DirectoryDerived(db.message_entities)}
            = {<<"ip", Ip2>>}

\* the rows of the loop "for e in entities: INSERT OR IGNORE"
RECURSIVE InsertAll(_, _, _, _)
InsertAll(rows, entities, message_id, ts_utc) ==
    IF entities = <<>> THEN rows
    ELSE LET e == Head(entities)
         IN  InsertAll(InsertOrIgnoreEntity(rows,
                            EntityRow(message_id, e.entity_type, e.entity_value,
                                      e.entity_raw, e.confidence, e.extractor, ts_utc)),
                       Tail(entities), message_id, ts_utc)

\* the entity rows a whole ingest of the message can leave: those of the
\* text, then those of the enrichment
WholeEntityRows(m) ==
    Enrichment(InsertAll(<<>>, extract_entities(Strip(m.text), ENTITIES_DATA), m.id, m.ts_utc),
               m.id, m.ts_utc, enrichment_file, terminal_directory)

EntityRowsOf(rows, message_id) ==
    LET Mine(r) == r.message_id = message_id
    IN  SelectSeq(rows, Mine)

\* what a reader of the committed tables sees is, for every message, all of
\* its ingest: the message row, its classification row and its whole entity set
ReaderSeesWholeIngests ==
    /\ \A m \in Range(db.messages) :
            /\ Cardinality(ClassificationRowsOf(db.message_classification, m.id)) = 1
            /\ EntityRowsOf(db.message_entities, m.id) \in WholeEntityRows(m)
    /\ MessageIdsOf(db) \subseteq {m.id : m \in Range(db.messages)}

\* C17: a reader on another connection sees of every ingest either nothing or
\* everything: the committed tables hold whole ingests only, and they change
\* in the commit step alone, which publishes the running transaction at once.
C17_ReaderSeesAllOrNothing ==
    /\ []ReaderSeesWholeIngests
    /\ [][db' # db => (pc = "commit" /\ db' = tx)]_vars

\* a second ingest has written its message, classification, text and
\* directory entities, and the reader still sees the first message only
C17_Witness ==
    /\ pc = "commit"
    /\ Len(db.messages) = 1
    /\ Len(tx.messages) = 2
    /\ Len(tx.message_classification) = 2
    /\ \E r \in DirectoryDerived(tx.message_entities) : r.message_id = 2
    /\ \A r \in Range(db.message_entities) : r.message_id = 1

\* every message row has an id of its own, a single classification row and
\* the whole entity set of its text
EveryIngestHasItsRows ==
    /\ \A i, j \in 1..Len(db.messages) : db.messages[i].id = db.messages[j].id => i = j
    /\ Len(db.messages) = Cardinality(returned)
    /\ \A m \in Range(db.messages) :
            /\ m.id \in returned
            /\ Cardinality(ClassificationRowsOf(db.message_classification, m.id)) = 1
            /\ EntityRowsOf(db.message_entities, m.id) \in WholeEntityRows(m)

\* C18: every call that returns has added one messages row, whatever the
\* transport message id of the rows already there, and returns an id that no
\* earlier call returned; n returned calls leave n message rows, each with
\* one classification row and its own entity rows.
C18_NoDedupByTransportId ==
    /\ []EveryIngestHasItsRows
    /\ [][outcome'.status = "returned" /\ pc = "commit" =>
            /\ outcome'.message_id \notin returned
            /\ Len(db'.messages) = Len(db.messages) + 1
            /\ db'.messages[Len(db'.messages)] =
                    [id |-> outcome'.message_id, ts_utc |-> call.m.ts_utc,
                     chat_id |-> call.m.chat_id, tg_message_id |-> call.m.tg_message_id,
                     text |-> call.m.text]]_vars

\* the same transport message was ingested twice: two message rows, each with
\* its own site entity
C18_Witness ==
    /\ returned = {1, 2}
    /\ Len(db.messages) = 2
    /\ db.messages[1].tg_message_id = db.messages[2].tg_message_id
    /\ db.messages[1].chat_id = db.messages[2].chat_id
    /\ db.messages[1].text = TxtSiteOne /\ db.messages[2].text = TxtSiteOne
    /\ \A id \in {1, 2} : EntityValues(db.message_entities, id, "azs") = {Azs0123}
    /\ Len(db.message_classification) = 2

(***************************************************************************)
(* Properties of classify_text                                             *)
(***************************************************************************)
Rules == RULES_DATA.problem_rules

RuleIndexes == 1..Len(Rules)

\* the rule is enabled and passes its include and its exclude filter on the text
Passes(r, text) ==
    /\ r.enabled
    /\ ~ Falsy(MatchedInclude(r.include_any, text))
    /\ ~ Excluded(r.exclude_any, text)

Outranks(a, b) ==
    \/ a.priority > b.priority
    \/ a.priority = b.priority /\ a.weight > b.weight

PassingIndexes == {i \in RuleIndexes : Passes(Rules[i], classified)}

SameRank(a, b) == a.priority = b.priority /\ a.weight = b.weight

ExcludeHits(r, text) ==
    \E k \in 1..Len(r.exclude_any) :
        ~ ReError(r.exclude_any[k]) /\ Search(r.exclude_any[k], text)

\* C6: the rule classify_text returns has no well-formed exclude pattern that
\* matches the text; a rule that has one is passed over, and a lower-ranked
\* rule that passes its filters is returned instead.
C6_ExcludedNeverReturned ==
    /\ res # NoResult =>
        \A i \in RuleIndexes :
            Rules[i].id = res.rule_id => ~ ExcludeHits(Rules[i], classified)
    /\ classified # <<>> /\ PassingIndexes # {} => res # NoResult

\* the top-ranked rule matches "pos" but excludes "down" after a malformed
\* exclude pattern; a lower-ranked rule is returned
C6_Witness ==
    /\ classified = TxtPlain
    /\ \E i, j \in RuleIndexes :
        /\ Rules[i].enabled
        /\ MatchedInclude(Rules[i].include_any, classified) = RePos
        /\ Rules[i].exclude_any = <<ReBroken, ReDown>>
        /\ Outranks(Rules[i], Rules[j])
        /\ res # NoResult
        /\ res.rule_id = Rules[j].id

\* C7: the rule classify_text returns has a code of the rule set's taxonomy.
C7_CodeInTaxonomy ==
    res # NoResult => res.code \in RULES_DATA.problem_taxonomy.codes

(***************************************************************************)
(* Properties of extract_entities                                          *)
(***************************************************************************)
RECURSIVE Flatten(_)
Flatten(xss) == IF xss = <<>> THEN <<>> ELSE Head(xss) \o Flatten(Tail(xss))

\* the one-or-two-digit numeric tokens of a captured text: the maximal runs of
\* word characters that consist of one or two digits, as <<first, last>>
ShortNumRuns(s) ==
    {run \in (1..Len(s)) \X (1..Len(s)) :
        /\ run[1] <= run[2]
        /\ run[2] - run[1] < 2
        /\ \A k \in run[1]..run[2] : IsDigit(s[k])
        /\ run[1] = 1 \/ ~ IsWord(s[run[1] - 1])
        /\ run[2] = Len(s) \/ ~ IsWord(s[run[2] + 1])}

\* the tokens from left to right
TokensOf(s) ==
    LET runs == ShortNumRuns(s)
        Nth(k) == CHOOSE run \in runs :
                    Cardinality({other \in runs : other[1] < run[1]}) = k - 1
    IN  [k \in 1..Cardinality(runs) |-> SubSeq(s, Nth(k)[1], Nth(k)[2])]

Captured(m) == IF m.lastindex >= 1 THEN m.group1 ELSE m.raw

\* what a match of a workplace pattern is to contribute: one EntityMatch per
\* token when its captured text has tokens
WorkplaceItems(m, r) ==
    LET tokens == TokensOf(Captured(m))
        tag    == ExtractorTag(entities_data.extractor, r.name)
    IN  IF tokens # <<>>
        THEN [k \in 1..Len(tokens) |->
                EntityMatch("workplace", tokens[k], m.raw, r.confidence, tag)]
        ELSE MatchEntities("workplace", m, r.confidence, tag)

WorkplaceRules ==
    LET IsWorkplace(item) == item.entity_type = "workplace"
        WellFormed(r) == ~ ReError(r.regex)
        items == SelectSeq(entities_data.patterns, IsWorkplace)
    IN  IF items = <<>> THEN <<>> ELSE SelectSeq(items[1].rules, WellFormed)

IsWorkplaceMatch(e) == e.entity_type = "workplace"

\* C9: the workplace items of the list extract_entities returns are, pattern by
\* pattern and match by match, one EntityMatch per one-or-two-digit token of
\* the captured text (token as value, whole match as raw, in token order) and
\* nothing for the capture as a whole; "AZS 0123, RM 1,2,3" yields the site
\* 0123 and the workplaces 1, 2, 3.
C9_WorkplaceListSplit ==
    /\ extracted # <<>> =>
        SelectSeq(found, IsWorkplaceMatch) =
            Flatten([i \in 1..Len(WorkplaceRules) |->
                LET r  == WorkplaceRules[i]
                    ms == FindIter(r.regex, extracted)
                IN  Flatten([k \in 1..Len(ms) |-> WorkplaceItems(ms[k], r)])])
    /\ (extracted = TxtSiteThree /\ entities_data = [ENTITIES_DATA EXCEPT
                                        !.patterns = SubSeq(@, 1, 2)]) =>
        [i \in 1..Len(found) |-> <<found[i].entity_type, found[i].entity_value>>] =
            << <<"azs", Azs0123>>, <<"workplace", <<"1">>>>,
               <<"workplace", <<"2">>>>, <<"workplace", <<"3">>>> >>

C9_Witness ==
    /\ extracted = TxtSiteThree
    /\ entities_data = [ENTITIES_DATA EXCEPT !.patterns = SubSeq(@, 1, 2)]
    /\ Len(found) = 4
    /\ \A i \in 2..4 : found[i].entity_raw = SubSeq(TxtSiteThree, 11, 18)

(***************************************************************************)
(* Further properties of classify_text                                     *)
(***************************************************************************)
\* a malformed include pattern of the rule is reached before any include matched
BrokenBeforeMatch(r, text) ==
    \E k \in 1..Len(r.include_any) :
        /\ ReError(r.include_any[k])
        /\ \A j \in 1..(k - 1) :
                ~ ReError(r.include_any[j]) /\ ~ Search(r.include_any[j], text)

\* the rule of the set that stands first in (priority, weight, declared) order
FirstOf(indexes, i) ==
    /\ i \in indexes
    /\ \A k \in indexes \ {i} :
            \/ Outranks(Rules[i], Rules[k])
            \/ SameRank(Rules[i], Rules[k]) /\ i < k

\* C15: an enabled rule whose include patterns reach a malformed pattern
\* before any of them matched is never returned, even when a later include
\* pattern of it matches the text; classify_text still returns a result, the
\* first of the rules that pass their filters, wherever these rank.
MalformedIncludeSkipsRule ==
    LET broken  == {i \in RuleIndexes :
                        Rules[i].enabled /\ BrokenBeforeMatch(Rules[i], classified)}
        passing == PassingIndexes
    IN  (classified # <<>> /\ broken # {}) =>
            /\ \A i \in broken : res # NoResult => res.rule_id # Rules[i].id
            /\ \A j \in passing :
                    FirstOf(passing, j) => res # NoResult /\ res.rule_id = Rules[j].id

C15_MalformedIncludeSkipsRule == []MalformedIncludeSkipsRule

\* the top-ranked rule has a malformed include pattern before one that matches
\* the text; a lower-ranked rule is returned
C15_Witness ==
    /\ classified = TxtPos
    /\ \E i, j \in RuleIndexes :
        /\ Rules[i].enabled
        /\ Rules[i].include_any = <<ReBroken, RePos>>
        /\ Rules[i].exclude_any = <<>>
        /\ Outranks(Rules[i], Rules[j])
        /\ res # NoResult
        /\ res.rule_id = Rules[j].id

\* C14: the bot hands a message text to classify_text only with a rule set
\* that validate_rules accepts: a rule set that fails validation stops the
\* start-up.
C14_NoInvalidRuleSetInUse ==
    classified # <<>> => Has(validate_rules(RULES_DATA), "returned")

(***************************************************************************)
(* Properties of validate_rules                                            *)
(***************************************************************************)
FileCodes == Get(Get(RULES_DATA, "problem_taxonomy", EmptyMapping), "codes", {})

FileRuleList == Get(RULES_DATA, "problem_rules", <<>>)

Raised == Has(validation, "raised")

Accepted == Has(validation, "returned")

\* the rule lacks a required field (an empty id or code is no id or code)
LacksField(r) ==
    \/ \E key \in {"id", "enabled", "code", "priority", "weight", "include_any"} :
            ~ Has(r, key)
    \/ Has(r, "id") /\ r.id = ""
    \/ Has(r, "code") /\ r.code = ""

\* a defect the contract of the loader names
ListedDefect ==
    \/ FileCodes = {}
    \/ \E i \in 1..Len(FileRuleList) :
            LET r == FileRuleList[i]
            IN  \/ LacksField(r)
                \/ Has(r, "code") /\ r.code \notin FileCodes
                \/ Has(r, "weight") /\ (r.weight < 0 \/ r.weight > 100)
                \/ Has(r, "include_any") /\ r.include_any = <<>>
                \/ ~ Has(r, "exclude_any")
    \/ \E i, j \in 1..Len(FileRuleList) :
            /\ i < j
            /\ Has(FileRuleList[i], "id") /\ Has(FileRuleList[j], "id")
            /\ FileRuleList[i].id = FileRuleList[j].id

\* an include or exclude list holds a blank string
BlankPatternDefect ==
    \E i \in 1..Len(FileRuleList) :
        \E key \in {"include_any", "exclude_any"} :
            /\ Has(FileRuleList[i], key)
            /\ \E k \in 1..Len(FileRuleList[i][key]) : BlankPattern(FileRuleList[i][key][k])

WellFormedRule(r) == ~ ReError(r.regex)

\* the entity rule set without its malformed patterns
WellFormedOnly(data) ==
    [data EXCEPT !.patterns =
        [i \in 1..Len(@) |-> [@[i] EXCEPT !.rules = SelectSeq(@, WellFormedRule)]]]

MalformedRules ==
    UNION {{r \in Range(entities_data.patterns[i].rules) : ReError(r.regex)} :
            i \in 1..Len(entities_data.patterns)}

\* C16: extract_entities returns a list whatever the patterns are; no item of
\* it comes from a malformed pattern, and the list is the one the rule set
\* without its malformed patterns yields: the matches of the other patterns,
\* before and after the malformed one, are all there and in place.
C16_MalformedPatternSkipped ==
    /\ found = extract_entities(extracted, WellFormedOnly(entities_data))
    /\ \A e \in Range(found) : \A r \in MalformedRules :
            e.extractor # ExtractorTag(entities_data.extractor, r.name)
    /\ (extracted = TxtSiteList /\ MalformedRules # {}) =>
            {e \in Range(found) : e.entity_type = "workplace"}
                = {EntityMatch("workplace", n, SubSeq(TxtSiteList, 10, 15), 80,
                               ExtractorTag("regex:v1", "rm_list"))
                    : n \in {<<"1">>, <<"2">>}}

\* a site pattern, then a workplace type whose first pattern is malformed:
\* the site and the two workplaces of the well-formed pattern were found
C16_Witness ==
    /\ extracted = TxtSiteList
    /\ Len(entities_data.patterns) = 2
    /\ entities_data.patterns[1].entity_type = "azs"
    /\ entities_data.patterns[2].rules[1].regex = ReBroken
    /\ Len(found) = 3
    /\ found[3].entity_value = <<"2">>

\* C19: the list extract_entities returns holds no two items with the same
\* (entity_type, entity_value).
C19_ExtractDeduplicated ==
    \A i, j \in 1..Len(found) :
        (found[i].entity_type = found[j].entity_type
            /\ found[i].entity_value = found[j].entity_value) => i = j

\* what one match of a pattern of the type is to contribute
ItemsOfMatch(entity_type, m, r) ==
    LET tag  == ExtractorTag(entities_data.extractor, r.name)
        norm == _normalize(entity_type, Captured(m))
    IN  IF entity_type = "workplace" /\ TokensOf(Captured(m)) # <<>>
        THEN WorkplaceItems(m, r)
        ELSE IF norm = <<>> THEN <<>>
        ELSE <<EntityMatch(entity_type, norm, m.raw, r.confidence, tag)>>

\* the items in entity-type declaration order, then pattern declaration
\* order, then match order
ItemsInDeclaredOrder ==
    Flatten([i \in 1..Len(entities_data.patterns) |->
        LET item  == entities_data.patterns[i]
            rules == SelectSeq(item.rules, WellFormedRule)
        IN  Flatten([k \in 1..Len(rules) |->
                LET ms == FindIter(rules[k].regex, extracted)
                IN  Flatten([n \in 1..Len(ms) |->
                        ItemsOfMatch(item.entity_type, ms[n], rules[k])])])])

\* C20: extract_entities leaves the entity rule set as it is; a call with the
\* text of the call before returns the list of the call before; the list
\* holds the items by entity-type declaration order, then pattern declaration
\* order, then match position; the empty text yields the empty list and no
\* item has an empty value.
C20_ExtractPureAndOrdered ==
    /\ [](/\ found = ItemsInDeclaredOrder
          /\ extracted = <<>> => found = <<>>
          /\ \A e \in Range(found) : e.entity_value # <<>>)
    /\ [][/\ entities_data' = entities_data
          /\ extracted' = extracted => found' = found]_vars

\* the workplace type is declared before the site type: the two patterns of
\* the workplace type come first, each with its two matches, then the site,
\* which stands first in the text
C20_Witness ==
    /\ extracted = TxtSiteDup
    /\ Len(entities_data.patterns) = 2
    /\ entities_data.patterns[1].entity_type = "workplace"
    /\ entities_data.patterns[2].entity_type = "azs"
    /\ [i \in 1..Len(found) |-> found[i].extractor[3]]
            = <<"rm_one", "rm_one", "rm_list", "rm_list", "azs_num">>


\* a malformed exclude pattern of the rule stands before a well-formed one
\* that matches the text
MalformedThenHit(r, text) ==
    \E k, j \in 1..Len(r.exclude_any) :
        /\ k < j
        /\ ReError(r.exclude_any[k])
        /\ ~ ReError(r.exclude_any[j])
        /\ Search(r.exclude_any[j], text)

\* C21: a malformed exclude pattern is not a match: of the enabled rules with
\* an include match and no well-formed exclude pattern that matches the text
\* (malformed exclude patterns or not), the first in order is the rule
\* returned; the exclude patterns after a malformed one are still tried: a
\* rule with a well-formed matching exclude pattern after a malformed one is
\* not returned.
MalformedExcludeIgnored ==
    LET clear == {i \in RuleIndexes :
                    /\ Rules[i].enabled
                    /\ ~ Falsy(MatchedInclude(Rules[i].include_any, classified))
                    /\ ~ ExcludeHits(Rules[i], classified)}
    IN  classified # <<>> =>
            /\ \A i \in clear :
                    FirstOf(clear, i) => res # NoResult /\ res.rule_id = Rules[i].id
            /\ \A i \in RuleIndexes :
                    (MalformedThenHit(Rules[i], classified) /\ res # NoResult) =>
                        res.rule_id # Rules[i].id

IncludeMatches(r, text) ==
    \E k \in 1..Len(r.include_any) :
        /\ \A j \in 1..k : ~ ReError(r.include_any[j])
        /\ Search(r.include_any[k], text)

\* C22: classify_text is first-win over the enabled rules in (priority desc,
\* weight desc, declared) order: the rule it returns is enabled and is the
\* first of the enabled rules that have a matching include pattern and no
\* matching exclude pattern, and it returns none exactly when the text is
\* empty or no enabled rule has both.
C22_FirstWin ==
    LET surviving == {i \in RuleIndexes :
                        /\ Rules[i].enabled
                        /\ IncludeMatches(Rules[i], classified)
                        /\ ~ ExcludeHits(Rules[i], classified)}
    IN  /\ res # NoResult =>
            \E i \in surviving :
                FirstOf(surviving, i) /\ res.rule_id = Rules[i].id
        /\ res = NoResult <=> (classified = <<>> \/ surviving = {})


(***************************************************************************)
(* Further properties of ingest_raw_and_classify                           *)
(***************************************************************************)
\* the (site, workplace) pairs of the message
PairsOf(rows, message_id) ==
    EntityValues(rows, message_id, "azs") \X EntityValues(rows, message_id, "workplace")

\* the (type, value) pairs of the directory-derived entities of the message
DerivedOf(rows, message_id) ==
    {<<r.entity_type, r.entity_value>> :
        r \in {q \in DirectoryDerived(rows) : q.message_id = message_id}}

\* the (type, value) pairs the policy writes for one directory row
WrittenFor(row) ==
    {e \in {<<"tid", row.tid>>, <<"ip", row.ip>>} :
        /\ e[2] # <<>>
        /\ e[1] = "tid" => WriteTid
        /\ e[1] = "ip" => WriteIp}

\* the directory-derived entities of the message are those of this one row
DerivedFromRow(rows, message_id, row) ==
    /\ DerivedOf(rows, message_id) \subseteq WrittenFor(row)
    /\ \A e \in WrittenFor(row) : HasEntity(rows, message_id, e[1], e[2])

\* C23: without the unique-match policy a committed message whose (site,
\* workplace) lookup returns one or more rows has the 'tid'/'ip' entities of
\* one of the returned rows, the row the lookup returns first, and of no
\* other row; a message whose lookups return no row has no directory-derived
\* entity, with the policy or without it.
C23_FirstRowWithoutUniquePolicy ==
    Enabled =>
        \A m \in Range(db.messages) :
            LET rows  == db.message_entities
                pairs == PairsOf(rows, m.id)
                Found(p) == lookup_terminal_directory(terminal_directory, p[1], p[2])
            IN  /\ (\A p \in pairs : Found(p) = <<>>) => DerivedOf(rows, m.id) = {}
                /\ (~ RequireUnique /\ pairs # {}) =>
                        \E p \in pairs :
                            IF Found(p) = <<>> THEN DerivedOf(rows, m.id) = {}
                            ELSE \E row \in Range(Found(p)) :
                                    DerivedFromRow(rows, m.id, row)

\* without the unique-match policy: a message whose workplace has no
\* directory row was committed without directory-derived entities, then one
\* with a workplace of two rows was committed with the tid and ip of one row
C23_Witness ==
    /\ Enabled /\ ~ RequireUnique /\ WriteTid /\ WriteIp
    /\ terminal_directory = DirectoryA
    /\ Len(db.messages) = 2
    /\ db.messages[1].text = TxtSiteOne
    /\ Len(lookup_terminal_directory(terminal_directory, Azs0123, <<"3">>)) = 0
    /\ DerivedOf(db.message_entities, 1) = {}
    /\ db.messages[2].text = TxtSiteList
    /\ Len(lookup_terminal_directory(terminal_directory, Azs0123, <<"2">>)) = 2
    /\ DerivedOf(db.message_entities, 2) = {<<"tid", Tid2>>, <<"ip", Ip2>>}


\* the rows of the three tables that belong to the message
RowsOfMessage(d, message_id) ==
    LET IsMessage(r) == r.id = message_id
        IsOwned(r)   == r.message_id = message_id
    IN  [messages               |-> SelectSeq(d.messages, IsMessage),
         message_classification |-> SelectSeq(d.message_classification, IsOwned),
         message_entities       |-> SelectSeq(d.message_entities, IsOwned)]

\* C24: frame of ingest_raw_and_classify.  No step of a call, successful or
\* failed, changes terminal_directory, and none changes a row of messages,
\* message_classification or message_entities of a message ingested before,
\* in the committed tables or in the connection's view of them; the rows a
\* call adds carry the message id assigned to it, and a failed call adds none.
IngestFrame ==
    /\ terminal_directory' = terminal_directory
    /\ \A id \in MessageIdsOf(db) :
            /\ RowsOfMessage(db', id) = RowsOfMessage(db, id)
            /\ RowsOfMessage(tx', id) = RowsOfMessage(db, id)
    /\ MessageIdsOf(db') # MessageIdsOf(db) =>
            /\ outcome'.status = "returned"
            /\ MessageIdsOf(db') = MessageIdsOf(db) \cup {outcome'.message_id}
            /\ outcome'.message_id \notin MessageIdsOf(db)
    /\ MessageIdsOf(tx') \subseteq MessageIdsOf(db') \cup {call'.message_id}
    /\ outcome'.status = "raised" => db' = db /\ tx' = db

C24_IngestFrame == [][IngestFrame]_vars

\* two redeliveries of one transport message are committed, the first left
\* unclassified with its entities, the second classified
C24_Witness ==
    /\ outcome = [status |-> "returned", message_id |-> 2]
    /\ Len(db.messages) = 2
    /\ db.messages[1].chat_id = db.messages[2].chat_id
    /\ db.messages[1].tg_message_id = db.messages[2].tg_message_id
    /\ \E i, j \in 1..Len(db.message_classification) :
        /\ db.message_classification[i].message_id = 1
        /\ db.message_classification[i].is_unclassified = 1
        /\ db.message_classification[j].message_id = 2
        /\ db.message_classification[j].is_unclassified = 0
    /\ RowsOfMessage(db, 1).message_entities # <<>>
    /\ RowsOfMessage(db, 2).message_entities # <<>>

=============================================================================
